---------------------------- MODULE Spec2Model ----------------------------
(***************************************************************************)
(* proper-lockfile (lib/lockfile.js, lib/mtime-precision.js): an advisory  *)
(* lock made of a sentinel directory whose mtime is refreshed by its       *)
(* holder.  Several node processes share one filesystem; each has its own  *)
(* `locks` registry, its own Lock objects and refresh timers.  Time is the *)
(* wall clock (Date.now(), milliseconds).  Every filesystem call is issued *)
(* in one step and completes (effect on the disk and callback) in a later  *)
(* step, so other processes, timers and the clock interleave in between.   *)
(***************************************************************************)
EXTENDS Integers, Sequences, FiniteSets, TLC

\* ------------------------------------------------------------- bounds
MaxSec == 4          \* seconds of wall clock explored after StartTime
MaxCalls == 2        \* API calls per process
MaxDisturb == 1      \* injected I/O errors and changes made by an outside program
MaxRetries == 2      \* the largest `retries` option a caller passes

\* ------------------------------------------------- program constants
Second == 1000
ProbeOffset == 5
MinStale == 2000
MinUpdate == 1000
DefaultStale == 10000
RecoveryDelay == 1000

Procs == {"A", "B"}
StartTime == 100 * Second
\* The clock is watched at whole seconds after the time it started at.
Horizon == StartTime + MaxSec * Second
Phases == {0, 1, 500}

Max(a, b) == IF a >= b THEN a ELSE b
Min(a, b) == IF a <= b THEN a ELSE b

\* ------------------------------------------------------ option values
\* A JavaScript option value: a number, false, null, or absent.
Num(n) == [tag |-> "num", n |-> n]
JsFalse == [tag |-> "false", n |-> 0]
JsNull == [tag |-> "null", n |-> 0]
Absent == [tag |-> "absent", n |-> 0]

\* `x || 0`
OrZero(o) == IF o.tag = "num" THEN o.n ELSE 0

\* The threshold taken as it is given, without the minimum.
LockStaleAsGiven(o) == OrZero(IF o.tag = "absent" THEN Num(DefaultStale) ELSE o)

\* lock(): options.stale = Math.max(options.stale || 0, 2000), default 10000
LockStale(o) == Max(OrZero(IF o.tag = "absent" THEN Num(DefaultStale) ELSE o), MinStale)

\* The refresh interval without its minimum of 1000.
LockUpdateNoMin(u, stale) ==
    LET v == IF u.tag \in {"absent", "null"} THEN stale \div 2 ELSE OrZero(u)
    IN  Min(v, stale \div 2)

\* lock(): options.update == null ? stale / 2 : options.update || 0, then clamped
LockUpdate(u, stale) ==
    LET v == IF u.tag \in {"absent", "null"} THEN stale \div 2 ELSE OrZero(u)
    IN  Max(Min(v, stale \div 2), MinUpdate)

\* ------------------------------------------------ mtime-precision.js
CeilSecond(t) == ((t + Second - 1) \div Second) * Second

\* probe(): new Date((Math.ceil(Date.now() / 1000) * 1000) + 5)
ProbeMtime(t) == CeilSecond(t) + ProbeOffset

\* probe(): stat.mtime.getTime() % 1000 === 0 ? 's' : 'ms'
ProbePrecision(m) == IF m % Second = 0 THEN "s" ELSE "ms"

\* getMtime() that takes the clock as it is whatever the precision.
getMtimeNow(precision, t) == t

\* getMtime(precision)
getMtime(precision, t) == IF precision = "s" THEN CeilSecond(t) ELSE t

\* What the stat of a device reports for a timestamp written to it: "s"
\* rounds down to the whole second, "up" rounds up, "ms" keeps it.
Stored(dev, m) ==
    IF dev = "s" THEN (m \div Second) * Second
    ELSE IF dev = "up" THEN CeilSecond(m)
    ELSE m

\* ------------------------------------------------------- lockfile.js
\* isLockStale() with the comparison turned round, and one that never says stale.
isLockStaleFlipped(mtime, stale, t) == mtime > t - stale
isLockStaleNever(mtime, stale, t) == FALSE
isLockStaleEitherWay(mtime, stale, t) == mtime < t - stale \/ mtime > t + stale

\* isLockStale(stat, options)
isLockStale(mtime, stale, t) == mtime < t - stale

VARIABLES
    now,     \* Date.now()
    disk,    \* the sentinel directory: [exists, mtime]
    dev,     \* mtime resolution of the device holding the sentinel: "s" | "ms"
    cfg,     \* the stale / update / retries options every caller passes
    proc,    \* per process: registry, Lock objects, refresh chains, call in flight
    out,     \* per process: the outcomes of its finished API calls, in order
    budget,  \* I/O errors and outside changes that may still happen
    quota,   \* API calls each process may make in all (the contender makes one)
    \* One process seen with several paths, canonical keys and devices
    \* (refreshing left aside):
    tree,     \* what realpath answers for a path, the device and resolution of a key
    sent,     \* the sentinel directory of every canonical key: [exists, mtime]
    registry, \* `locks`, keyed by canonical path
    jobs,     \* the API calls of that process, in flight and finished
    fsobj     \* the `fs` module object all asynchronous calls share

mvars == <<now, disk, dev, cfg, proc, out, budget, quota>>
pvars == <<tree, sent, registry, jobs, fsobj>>
vars == <<now, disk, dev, cfg, proc, out, budget, quota, tree, sent, registry, jobs, fsobj>>

\* The effective options of every lock() call.
Stale == LockStale(cfg.stale)
Update == LockUpdate(cfg.update, Stale)

NoRec == 0
\* What is recorded about a call besides its position: `found` is the
\* sentinel as it was when the call was made, `holder` whether the caller
\* had the lock in its registry then, `made` the time of the mkdir that
\* created the sentinel for this call, `touched` whether something else
\* changed the sentinel since that mkdir.
\* `tries` counts the acquisition attempts started, `errs` are the errors the
\* retry operation has collected, `due` is when its timer fires.
IdleCall ==
    [pc |-> "idle", op |-> "none", stale |-> 0, pend |-> 0, rec |-> 0, made |-> 0,
     found |-> "none", holder |-> FALSE, touched |-> FALSE,
     tries |-> 0, errs |-> << >>, due |-> 0]

\* The sentinel d as a caller with threshold `stale` finds it at time t.
Found(d, stale, t) ==
    IF ~d.exists THEN "none"
    ELSE IF d.mtime < t - stale THEN "stale"
    ELSE IF d.mtime > t + stale THEN "future"
    ELSE "recent"

InitProc ==
    [ up     |-> TRUE,     \* the process is running
      cache  |-> "none",   \* fs[cacheSymbol]: set once a lock was taken, on any file
      locks  |-> NoRec,    \* locks[file]: index into recs, 0 when absent
      recs   |-> << >>,    \* the Lock objects created so far
      chains |-> << >>,    \* refresh chains, one started per Lock object
      call   |-> IdleCall, \* the API call in flight
      orphan |-> 0 ]       \* rmdir calls of failed probes still in flight

StaleInputs == {Num(2000)}
UpdateInputs == {Absent}
\* cfg.onCompromised is "custom" (the caller's) or "default" (which throws).

InitDisk ==
    { [exists |-> FALSE, mtime |-> 0],
      [exists |-> TRUE, mtime |-> StartTime - 60 * Second],  \* left behind
      [exists |-> TRUE, mtime |-> StartTime + 60 * Second] } \* from the future

\* ------------------------------------------------- state of one process
Removed == [exists |-> FALSE, mtime |-> 0]

NewLock(mtime, precision, t) ==
    [ mtime |-> mtime, mtimePrecision |-> precision, lastUpdate |-> t,
      updateDelay |-> 0,      \* 0 stands for null
      updateTimeout |-> 0,    \* the chain whose timer is pending, 0 for null
      released |-> FALSE,
      \* what follows is not part of the Lock object: it records its history
      compromised |-> 0,      \* calls of onCompromised made for this lock
      why |-> "none",         \* the error the last of them was called with
      handleCalls |-> 0,      \* calls of its release handle (counted up to 2)
      refreshes |-> 0,        \* successful refreshes (counted up to 2)
      touched |-> FALSE,      \* somebody else changed the sentinel since its mkdir
      drifted |-> FALSE ]     \* somebody else changed it since the lock was acquired

EndedChain == [pc |-> "end", lock |-> 0, due |-> 0, pend |-> 0]

\* An exception nobody catches, thrown from a callback: the process exits.
Throw(s) == [s EXCEPT !.up = FALSE]

\* clearTimeout(lock.updateTimeout)
ClearTimer(s, r) ==
    LET k == s.recs[r].updateTimeout
    IN  IF k = 0 THEN s
        ELSE [s EXCEPT !.chains[k] = EndedChain, !.recs[r].updateTimeout = 0]

\* updateLock(file, options), called on behalf of chain k at time t
updateLock(s, k, update, t) ==
    IF s.locks = NoRec
    THEN Throw([s EXCEPT !.chains[k] = EndedChain])   \* lock is undefined: TypeError
    ELSE LET l == s.locks
             lock == s.recs[l]
             delay == IF lock.updateDelay # 0 THEN lock.updateDelay ELSE update
         IN  IF lock.updateTimeout # 0
             THEN [s EXCEPT !.chains[k] = EndedChain]
             ELSE [s EXCEPT !.recs[l].updateDelay = delay,
                            !.recs[l].updateTimeout = k,
                            !.chains[k] = [pc |-> "timer", lock |-> l,
                                           due |-> t + delay, pend |-> 0]]

\* setLockAsCompromised() that leaves the registry as it is.
setLockAsCompromisedKept(s, r, err, handler) ==
    LET s1 == ClearTimer([s EXCEPT !.recs[r].released = TRUE], r)
        s2 == [s1 EXCEPT !.recs[r].compromised = @ + 1, !.recs[r].why = err]
    IN  IF handler = "default" THEN Throw(s2) ELSE s2

\* setLockAsCompromised(file, lock, err); err.code is ECOMPROMISED, and
\* `err` here is what the error tells besides: the code it had before
\* ("ENOENT", "EIO") or "NOTMINE" for the error made at lines 173-176
setLockAsCompromised(s, r, err, handler) ==
    LET s1 == ClearTimer([s EXCEPT !.recs[r].released = TRUE], r)
        s2 == [s1 EXCEPT !.locks = IF s1.locks = r THEN NoRec ELSE s1.locks,
                         !.recs[r].compromised = @ + 1,
                         !.recs[r].why = err]
    IN  IF handler = "default" THEN Throw(s2) ELSE s2

\* The part of unlock() that runs once the path is resolved, up to the rmdir call.
unlockNoCheck(s) ==
    LET s1 == ClearTimer(s, s.locks)
    IN  [s1 EXCEPT !.recs[s.locks].released = TRUE,
                   !.locks = NoRec,
                   !.call.pc = "unlockRmdir"]

\* unlock() without its test of the registry.
unlockUnchecked(s) ==
    IF s.locks = NoRec THEN [s EXCEPT !.call.pc = "unlockRmdir"] ELSE unlockNoCheck(s)

\* unlock(): ENOTACQUIRED when the registry has no record
unlock(s) ==
    IF s.locks = NoRec
    THEN [s EXCEPT !.call.pc = "ENOTACQUIRED"]
    ELSE unlockNoCheck(s)

\* ----------------------------------- paths, canonical keys, devices
\* The files the calls name: foo is a file, bar is another file or a
\* symbolic link to foo, nope does not exist.  The canonical path of a file
\* is its key, and <key>.lock its sentinel.
Paths == {"foo", "bar", "nope"}
Keys == {"foo", "bar", "nope"}
Devs == {"d1", "d2"}

\* fs.realpath
Linked == [q \in Paths |-> IF q = "nope" THEN "ENOENT" ELSE "foo"]
Apart == [q \in Paths |-> IF q = "nope" THEN "ENOENT" ELSE q]

Trees ==
    { [real |-> r, devOf |-> d, prec |-> q] :
          r \in {Linked, Apart},
          d \in {[k \in Keys |-> "d1"], [k \in Keys |-> IF k = "bar" THEN "d2" ELSE "d1"]},
          q \in [Devs -> {"s", "ms"}] }

NoLock == [held |-> FALSE, mtime |-> 0, mtimePrecision |-> "none"]

\* options.retries given to the synchronous lock: a number or an object
Obj(n) == [tag |-> "obj", n |-> n]

\* `fsCalls` counts the filesystem calls a call has issued, `sentCalls` those
\* of them that name a sentinel (mkdir, stat, utimes, rmdir); `cached` is
\* what probe() found in the cache when it was entered.
IdleJob ==
    [pc |-> "none", op |-> "none", path |-> "none", realpath |-> FALSE, sync |-> FALSE,
     retries |-> Absent, key |-> "none", stale |-> 0, pend |-> 0, cached |-> "none",
     fsCalls |-> 0, sentCalls |-> 0]

PathsIdle ==
    /\ tree = [real |-> Apart, devOf |-> [k \in Keys |-> "d1"],
               prec |-> [d \in Devs |-> "ms"]]
    /\ sent = [k \in Keys |-> Removed]
    /\ registry = [k \in Keys |-> NoLock]
    /\ jobs = [i \in 1..MaxCalls |-> IdleJob]
    /\ fsobj = [cache |-> "none", probes |-> [d \in Devs |-> 0], crashed |-> FALSE]

Final == {"ok", "ELOCKED", "ENOENT", "ENOTACQUIRED", "ESYNC", "true", "false"}
Running(i) == jobs[i].pc \notin Final \cup {"none"}

\* A filesystem call is issued; the job waits for it at `pc`.
Issue(j, pc, sentinel) ==
    [j EXCEPT !.pc = pc, !.fsCalls = @ + 1,
              !.sentCalls = IF sentinel THEN @ + 1 ELSE @]

\* resolveCanonicalPath() without fs.realpath: path.resolve(file)
Lexical(path) == path

\* toSyncOptions() that looks at a number only.
toSyncOptionsNumberOnly(retries) == retries.tag = "num" /\ retries.n > 0

\* toSyncOptions(): does it throw ESYNC
toSyncOptions(retries) ==
    \/ retries.tag = "num" /\ retries.n > 0
    \/ retries.tag = "obj" /\ retries.n > 0

\* lockSync(): the options go through toSyncOptions before lock() is
\* entered, so its ESYNC is thrown to the caller at once.
lockSync(j) ==
    IF j.sync /\ toSyncOptions(j.retries) THEN [j EXCEPT !.pc = "ESYNC"] ELSE j

\* lock / unlock / check once the canonical path is known: the job and the
\* registry after it
AfterResolve(j, key, reg) ==
    LET j1 == [j EXCEPT !.key = key] IN
    IF j.op = "lock" THEN [job |-> Issue(j1, "mkdir", TRUE), reg |-> reg]
    ELSE IF j.op = "unlock"
         THEN IF ~reg[key].held
              THEN [job |-> [j1 EXCEPT !.pc = "ENOTACQUIRED"], reg |-> reg]
              ELSE [job |-> Issue(j1, "rmdir", TRUE), reg |-> [reg EXCEPT ![key] = NoLock]]
         ELSE [job |-> Issue(j1, "checkStat", TRUE), reg |-> reg]

\* A step of job i ends.
PCommit(i, j, reg, se, fo) ==
    /\ jobs' = [jobs EXCEPT ![i] = j]
    /\ registry' = reg
    /\ sent' = se
    /\ fsobj' = fo
    /\ UNCHANGED tree
    /\ UNCHANGED mvars

\* While a synchronous call runs nothing else does.
MayRun(i) ==
    /\ ~fsobj.crashed
    /\ \A o \in DOMAIN jobs : o # i /\ jobs[o].sync => ~Running(o)

\* lock(), unlock() or check() is called, or lockSync(); `conc` is how many
\* calls the caller keeps in flight at once.
PStart(i, op, path, rp, sync, retries, conc) ==
    LET j == [IdleJob EXCEPT !.op = op, !.path = path, !.realpath = rp, !.sync = sync,
                             !.retries = retries, !.stale = DefaultStale]
        a == AfterResolve(j, Lexical(path), registry)
    IN  /\ MayRun(i)
        /\ jobs[i].pc = "none"
        /\ i > 1 => jobs[i - 1].pc # "none"
        /\ Cardinality({o \in DOMAIN jobs : Running(o)}) < conc
        /\ IF lockSync(j).pc = "ESYNC"
           THEN PCommit(i, lockSync(j), registry, sent, fsobj)
           ELSE IF rp
                THEN PCommit(i, Issue(j, "realpath", FALSE), registry, sent, fsobj)
                ELSE PCommit(i, a.job, a.reg, sent, fsobj)

\* fs.realpath that follows no symbolic link.
RealPathNoLinks(tr, path) == IF tr.real[path] = "ENOENT" THEN "ENOENT" ELSE path

\* fs.realpath(file)
RealPath(tr, path) == tr.real[path]

\* resolveCanonicalPath(): the realpath callback
PRealpathDone(i) ==
    LET j == jobs[i]
        real == RealPath(tree, j.path)
        a == AfterResolve(j, real, registry)
    IN  /\ MayRun(i) /\ j.pc = "realpath"
        /\ IF real = "ENOENT"
           THEN PCommit(i, [j EXCEPT !.pc = "ENOENT"], registry, sent, fsobj)
           ELSE PCommit(i, a.job, a.reg, sent, fsobj)

\* The resolution of the device that holds the sentinel of key k.
PrecOf(k) == tree.prec[tree.devOf[k]]

\* acquireLock(): the mkdir callback, and the entry of probe()
PMkdirDone(i) ==
    LET j == jobs[i]
        k == j.key
        cached == IF j.sync THEN "none" ELSE fsobj.cache
        made == [sent EXCEPT ![k] = [exists |-> TRUE, mtime |-> Stored(PrecOf(k), now)]]
    IN  /\ MayRun(i) /\ j.pc = "mkdir"
        /\ IF sent[k].exists
           THEN IF j.stale <= 0
                THEN PCommit(i, [j EXCEPT !.pc = "ELOCKED"], registry, sent, fsobj)
                ELSE PCommit(i, Issue(j, "stat", TRUE), registry, sent, fsobj)
           ELSE IF cached # "none"
                THEN PCommit(i, Issue([j EXCEPT !.cached = cached], "probeStat", TRUE),
                             registry, made, fsobj)
                ELSE PCommit(i, Issue([j EXCEPT !.cached = "none",
                                                !.pend = ProbeMtime(now)],
                                      "probeUtimes", TRUE),
                             registry, made, fsobj)

\* acquireLock(): the stat callback of the staleness check
PStatDone(i) ==
    LET j == jobs[i]
        k == j.key
    IN  /\ MayRun(i) /\ j.pc = "stat"
        /\ IF ~sent[k].exists
           THEN PCommit(i, Issue([j EXCEPT !.stale = 0], "mkdir", TRUE), registry, sent, fsobj)
           ELSE IF ~isLockStale(sent[k].mtime, j.stale, now)
                THEN PCommit(i, [j EXCEPT !.pc = "ELOCKED"], registry, sent, fsobj)
                ELSE PCommit(i, Issue(j, "reclaim", TRUE), registry, sent, fsobj)

\* removeLock(): the rmdir callback, in unlock() and in acquireLock()
PRmdirDone(i) ==
    LET j == jobs[i]
        gone == [sent EXCEPT ![j.key] = Removed]
    IN  /\ MayRun(i) /\ j.pc \in {"rmdir", "reclaim"}
        /\ IF j.pc = "rmdir"
           THEN PCommit(i, [j EXCEPT !.pc = "ok"], registry, gone, fsobj)
           ELSE PCommit(i, Issue([j EXCEPT !.stale = 0], "mkdir", TRUE), registry, gone, fsobj)

\* probe(): the utimes callback
PProbeUtimesDone(i) ==
    LET j == jobs[i]
        k == j.key
        d == tree.devOf[k]
    IN  /\ MayRun(i) /\ j.pc = "probeUtimes"
        /\ IF ~sent[k].exists
           THEN PCommit(i, Issue([j EXCEPT !.pc = "ENOENT"], "ENOENT", TRUE),
                        registry, sent, fsobj)
           ELSE PCommit(i, Issue(j, "probeStat", TRUE), registry,
                        [sent EXCEPT ![k].mtime = Stored(PrecOf(k), j.pend)],
                        [fsobj EXCEPT !.probes[d] = @ + 1])

\* probe(): the stat callback, Object.defineProperty(fs, cacheSymbol, ...),
\* and lock(): the record is put into the registry.  Defining the cache
\* anew with another value throws a TypeError: the process exits and
\* onExit removes the sentinels of the registry.
PProbeStatDone(i) ==
    LET j == jobs[i]
        k == j.key
        precision == IF j.cached # "none" THEN j.cached ELSE ProbePrecision(sent[k].mtime)
        defines == j.cached = "none" /\ ~j.sync
        reg == [registry EXCEPT ![k] = [held |-> TRUE, mtime |-> sent[k].mtime,
                                        mtimePrecision |-> precision]]
    IN  /\ MayRun(i) /\ j.pc = "probeStat"
        /\ IF ~sent[k].exists
           THEN PCommit(i, Issue([j EXCEPT !.pc = "ENOENT"], "ENOENT", TRUE),
                        registry, sent, fsobj)
           ELSE IF defines /\ fsobj.cache \notin {"none", precision}
                THEN PCommit(i, j, registry,
                             [o \in Keys |-> IF registry[o].held THEN Removed ELSE sent[o]],
                             [fsobj EXCEPT !.crashed = TRUE])
                ELSE PCommit(i, [j EXCEPT !.pc = "ok"], reg, sent,
                             IF defines THEN [fsobj EXCEPT !.cache = precision] ELSE fsobj)

\* check(): the stat callback
PCheckStatDone(i) ==
    LET j == jobs[i]
        k == j.key
    IN  /\ MayRun(i) /\ j.pc = "checkStat"
        /\ IF sent[k].exists /\ ~isLockStale(sent[k].mtime, DefaultStale, now)
           THEN PCommit(i, [j EXCEPT !.pc = "true"], registry, sent, fsobj)
           ELSE PCommit(i, [j EXCEPT !.pc = "false"], registry, sent, fsobj)

\* The callbacks of the filesystem calls of job i.
PSteps(i) ==
    \/ PMkdirDone(i) \/ PStatDone(i) \/ PProbeUtimesDone(i) \/ PProbeStatDone(i)

\* The state after the module is loaded; the files are on one device.
InitPaths ==
    /\ now \in {StartTime + ph : ph \in Phases}
    /\ disk = Removed
    /\ dev = "ms"
    /\ cfg = [stale |-> Absent, update |-> Absent, onCompromised |-> "custom", retries |-> 0]
    /\ proc = [p \in Procs |-> InitProc]
    /\ out = [p \in Procs |-> << >>]
    /\ budget = 0
    /\ quota = [p \in Procs |-> 0]
    /\ tree \in {t \in Trees : t.devOf = [k \in Keys |-> "d1"] /\ t.prec["d2"] = "ms"}
    /\ sent = [k \in Keys |-> Removed]
    /\ registry = [k \in Keys |-> NoLock]
    /\ jobs = [i \in 1..MaxCalls |-> IdleJob]
    /\ fsobj = [cache |-> "none", probes |-> [d \in Devs |-> 0], crashed |-> FALSE]


\* ---------------------------------------------------- step plumbing
\* A released Lock object that no refresh chain refers to any more is only
\* ever read for its `released` flag (by its release handle): its other
\* fields are dropped from the state.
Forget(s) ==
    [s EXCEPT !.recs = [r \in DOMAIN s.recs |->
        IF s.recs[r].released /\ \A k \in DOMAIN s.chains : s.chains[k].lock # r
        THEN [s.recs[r] EXCEPT !.mtime = 0, !.lastUpdate = 0, !.updateDelay = 0,
                               !.refreshes = 0, !.touched = FALSE,
                               !.drifted = FALSE]
        ELSE s.recs[r]]]

\* Something other than the lock's own refresh changed the sentinel this
\* process holds or has just made.
Touched(s) ==
    LET s1 == IF s.call.made = 0 THEN s ELSE [s EXCEPT !.call.touched = TRUE]
    IN  IF s1.locks = NoRec THEN s1
        ELSE [s1 EXCEPT !.recs[s1.locks].touched = TRUE, !.recs[s1.locks].drifted = TRUE]

\* A process step that ends without the cleanup at exit.
CommitNoCleanup(p, s, d) ==
    LET fin  == s.call.pc \notin {"idle", "mkdir", "stat", "rmdir", "probeUtimes",
                                  "probeStat", "unlockRmdir", "checkStat", "retry"}
        res  == [op |-> s.call.op, res |-> s.call.pc, rec |-> s.call.rec,
                 found |-> s.call.found, tries |-> s.call.tries, errs |-> s.call.errs]
        s1   == IF fin THEN [s EXCEPT !.call = IdleCall] ELSE s
        s2   == IF s1.up THEN s1
                ELSE [s1 EXCEPT !.call = IdleCall, !.orphan = 0,
                                !.chains = [k \in DOMAIN s1.chains |-> EndedChain]]
    IN  /\ proc' = [q \in Procs |-> IF q = p THEN Forget(s2)
                                    ELSE IF d # disk THEN Touched(proc[q]) ELSE proc[q]]
        /\ out' = IF fin THEN [out EXCEPT ![p] = Append(@, res)] ELSE out
        /\ disk' = d
        /\ UNCHANGED pvars

\* A process step ends: the new process state, the new disk, and the
\* outcome of the API call if it finished.  A process that exits runs the
\* onExit handler: rmdirSync of the sentinel of every lock in the registry.
Commit(p, s, d) ==
    LET fin  == s.call.pc \notin {"idle", "mkdir", "stat", "rmdir", "probeUtimes",
                                  "probeStat", "unlockRmdir", "checkStat", "retry"}
        res  == [op |-> s.call.op, res |-> s.call.pc, rec |-> s.call.rec,
                 found |-> s.call.found, tries |-> s.call.tries, errs |-> s.call.errs]
        s1   == IF fin THEN [s EXCEPT !.call = IdleCall] ELSE s
        s2   == IF s1.up THEN s1
                ELSE [s1 EXCEPT !.call = IdleCall, !.orphan = 0,
                                !.chains = [k \in DOMAIN s1.chains |-> EndedChain]]
        dd   == IF ~s.up /\ s.locks # NoRec THEN Removed ELSE d
    IN  /\ proc' = [q \in Procs |-> IF q = p THEN Forget(s2)
                                    ELSE IF dd # disk THEN Touched(proc[q]) ELSE proc[q]]
        /\ out' = IF fin THEN [out EXCEPT ![p] = Append(@, res)] ELSE out
        /\ disk' = dd
        /\ UNCHANGED pvars

\* An I/O error other than ENOENT / EEXIST may be injected.
Fault == budget > 0
Inject == budget' = budget - 1
NoInject == budget' = budget

CanCall(p) ==
    /\ proc[p].up
    /\ proc[p].call.pc = "idle"
    /\ Len(out[p]) < quota[p]

\* ------------------------------------------------------------- lock()
\* retry.timeouts(): the delay before retry number i (the first is number 0)
\* with the defaults minTimeout 1000, factor 2
RetryDelay(i) == Second * 2 ^ i

\* operation.mainError(): the error met most often, the later one of equals
MainError(errs) ==
    LET cnt(i) == Cardinality({j \in 1..i : errs[j] = errs[i]})
        top == CHOOSE m \in {cnt(i) : i \in DOMAIN errs} :
                   \A i \in DOMAIN errs : cnt(i) <= m
        last == CHOOSE i \in DOMAIN errs :
                   cnt(i) = top /\ \A j \in DOMAIN errs : cnt(j) = top => j <= i
    IN  errs[last]

\* The retry operation with one retry more than was asked for.
AttemptedOnceMore(s, code, t) ==
    LET errs == Append(s.call.errs, code)
    IN  IF Len(s.call.errs) <= cfg.retries
        THEN [s EXCEPT !.call.pc = "retry", !.call.errs = errs,
                       !.call.due = t + RetryDelay(Len(s.call.errs))]
        ELSE [s EXCEPT !.call.pc = MainError(errs), !.call.errs = errs]

\* lock(): the acquireLock callback with an error.  operation.retry(err)
\* keeps the error and sets the timer of the next attempt while retries are
\* left; after that lock() calls back with operation.mainError().
Attempted(s, code, t) ==
    LET errs == Append(s.call.errs, code)
    IN  IF Len(s.call.errs) < cfg.retries
        THEN [s EXCEPT !.call.pc = "retry", !.call.errs = errs,
                       !.call.due = t + RetryDelay(Len(s.call.errs))]
        ELSE [s EXCEPT !.call.pc = MainError(errs), !.call.errs = errs]

LockCall(p) ==
    /\ CanCall(p)
    /\ Commit(p, [proc[p] EXCEPT !.call = [pc |-> "mkdir", op |-> "lock",
                                           stale |-> LockStale(cfg.stale),
                                           pend |-> 0, rec |-> 0, made |-> 0,
                                           found |-> Found(disk, LockStale(cfg.stale), now),
                                           holder |-> proc[p].locks # NoRec,
                                           touched |-> FALSE,
                                           tries |-> 1, errs |-> << >>, due |-> 0]], disk)
    /\ UNCHANGED <<now, dev, cfg, budget, quota>>

\* acquireLock(): the mkdir callback
MkdirDone(p) ==
    LET s == proc[p] IN
    /\ s.up /\ s.call.pc = "mkdir"
    /\ \/ /\ Fault /\ Inject
          /\ Commit(p, Attempted(s, "EIO", now), disk)
       \/ /\ NoInject
          /\ IF disk.exists
             THEN IF s.call.stale <= 0
                  THEN Commit(p, Attempted(s, "ELOCKED", now), disk)
                  ELSE Commit(p, [s EXCEPT !.call.pc = "stat"], disk)
             ELSE LET d == [exists |-> TRUE, mtime |-> Stored(dev, now)]
                  IN  IF s.cache # "none"
                      THEN Commit(p, [s EXCEPT !.call.pc = "probeStat",
                                               !.call.made = now], d)
                      ELSE Commit(p, [s EXCEPT !.call.pc = "probeUtimes",
                                               !.call.made = now,
                                               !.call.pend = ProbeMtime(now)], d)
    /\ UNCHANGED <<now, dev, cfg, quota>>

\* The stat callback that re-enters acquireLock() with the options as they are.
StatDoneSameOptions(p) ==
    LET s == proc[p] IN
    /\ s.up /\ s.call.pc = "stat"
    /\ \/ /\ Fault /\ Inject
          /\ Commit(p, Attempted(s, "EIO", now), disk)
       \/ /\ NoInject
          /\ IF ~disk.exists
             THEN Commit(p, [s EXCEPT !.call.pc = "mkdir"], disk)
             ELSE IF ~isLockStale(disk.mtime, s.call.stale, now)
                  THEN Commit(p, Attempted(s, "ELOCKED", now), disk)
                  ELSE Commit(p, [s EXCEPT !.call.pc = "rmdir"], disk)
    /\ UNCHANGED <<now, dev, cfg, quota>>

\* acquireLock(): the stat callback of the staleness check
StatDone(p) ==
    LET s == proc[p] IN
    /\ s.up /\ s.call.pc = "stat"
    /\ \/ /\ Fault /\ Inject
          /\ Commit(p, Attempted(s, "EIO", now), disk)
       \/ /\ NoInject
          /\ IF ~disk.exists
             THEN Commit(p, [s EXCEPT !.call.pc = "mkdir", !.call.stale = 0], disk)
             ELSE IF ~isLockStale(disk.mtime, s.call.stale, now)
                  THEN Commit(p, Attempted(s, "ELOCKED", now), disk)
                  ELSE Commit(p, [s EXCEPT !.call.pc = "rmdir"], disk)
    /\ UNCHANGED <<now, dev, cfg, quota>>

\* removeLock() of a stale sentinel, then acquireLock() with stale: 0
RmdirDone(p) ==
    LET s == proc[p] IN
    /\ s.up /\ s.call.pc = "rmdir"
    /\ \/ /\ Fault /\ Inject
          /\ Commit(p, Attempted(s, "EIO", now), disk)
       \/ /\ NoInject
          /\ Commit(p, [s EXCEPT !.call.pc = "mkdir", !.call.stale = 0], Removed)
    /\ UNCHANGED <<now, dev, cfg, quota>>

\* The probe's failure handed to the caller without the rmdir.
ProbeFailedNoRmdir(s, code, t) == Attempted(s, code, t)

\* acquireLock(): the probe failed, so rmdir is called and not waited for
ProbeFailed(s, code, t) ==
    Attempted([s EXCEPT !.orphan = @ + 1], code, t)

\* probe(): the utimes callback
ProbeUtimesDone(p) ==
    LET s == proc[p] IN
    /\ s.up /\ s.call.pc = "probeUtimes"
    /\ \/ /\ Fault /\ Inject
          /\ Commit(p, ProbeFailed(s, "EIO", now), disk)
       \/ /\ NoInject
          /\ IF ~disk.exists
             THEN Commit(p, ProbeFailed(s, "ENOENT", now), disk)
             ELSE Commit(p, [s EXCEPT !.call.pc = "probeStat"],
                         [disk EXCEPT !.mtime = Stored(dev, s.call.pend)])
    /\ UNCHANGED <<now, dev, cfg, quota>>

\* lock(): the acquireLock callback on success
Acquired(s, mtime, precision, update, t) ==
    LET n  == Len(s.recs) + 1
        s1 == [s EXCEPT !.locks = n,
                        !.recs = Append(@, [NewLock(mtime, precision, t) EXCEPT
                                     !.touched = s.call.touched]),
                        !.chains = Append(@, EndedChain),
                        !.call.pc = "ok",
                        !.call.rec = n]
    IN  updateLock(s1, n, update, t)

\* probe(): the stat callback (with or without a cached precision)
ProbeStatDone(p) ==
    LET s == proc[p] IN
    /\ s.up /\ s.call.pc = "probeStat"
    /\ \/ /\ Fault /\ Inject
          /\ Commit(p, ProbeFailed(s, "EIO", now), disk)
       \/ /\ NoInject
          /\ IF ~disk.exists
             THEN Commit(p, ProbeFailed(s, "ENOENT", now), disk)
             ELSE LET precision == IF s.cache # "none" THEN s.cache
                                   ELSE ProbePrecision(disk.mtime)
                      stale == LockStale(cfg.stale)
                  IN  Commit(p, Acquired([s EXCEPT !.cache = precision], disk.mtime,
                                         precision, LockUpdate(cfg.update, stale), now),
                             disk)
    /\ UNCHANGED <<now, dev, cfg, quota>>

\* lock(): the timer of the retry operation fires and the next attempt starts
RetryFire(p) ==
    LET s == proc[p] IN
    /\ s.up /\ s.call.pc = "retry"
    /\ now >= s.call.due
    /\ Commit(p, [s EXCEPT !.call.pc = "mkdir",
                           !.call.stale = LockStale(cfg.stale),
                           !.call.made = 0, !.call.touched = FALSE,
                           !.call.tries = @ + 1, !.call.due = 0], disk)
    /\ UNCHANGED <<now, dev, cfg, budget, quota>>

\* The rmdir of a failed probe lands.
OrphanRmdirDone(p) ==
    LET s == proc[p] IN
    /\ s.up /\ s.orphan > 0
    /\ Commit(p, [(IF disk.exists THEN Touched(s) ELSE s) EXCEPT !.orphan = @ - 1], Removed)
    /\ UNCHANGED <<now, dev, cfg, budget, quota>>

\* ------------------------------------------- release handle, unlock()
Called(s, r) == [s EXCEPT !.recs[r].handleCalls = Min(@ + 1, 2)]

\* The function lock() hands to its caller, for Lock object r.
Release(p, r) ==
    LET s == [proc[p] EXCEPT !.call = [IdleCall EXCEPT !.op = "release", !.rec = r]] IN
    /\ CanCall(p)
    /\ r \in DOMAIN proc[p].recs
    /\ IF s.recs[r].released
       THEN Commit(p, Called([s EXCEPT !.call.pc = "ERELEASED"], r), disk)
       ELSE Commit(p, Called(unlock(s), r), disk)
    /\ UNCHANGED <<now, dev, cfg, budget, quota>>

\* unlock(file) called directly
Unlock(p) ==
    /\ CanCall(p)
    /\ Commit(p, unlock([proc[p] EXCEPT !.call = [IdleCall EXCEPT !.op = "unlock"]]), disk)
    /\ UNCHANGED <<now, dev, cfg, budget, quota>>

\* removeLock() at the end of unlock(): the rmdir callback
UnlockRmdirDone(p) ==
    LET s == proc[p] IN
    /\ s.up /\ s.call.pc = "unlockRmdir"
    /\ \/ /\ Fault /\ Inject
          /\ Commit(p, [s EXCEPT !.call.pc = "EIO"], disk)
       \/ /\ NoInject
          /\ Commit(p, [s EXCEPT !.call.pc = "ok"], Removed)
    /\ UNCHANGED <<now, dev, cfg, quota>>

\* ------------------------------------------------------------ check()
\* check(): options.stale = Math.max(options.stale || 0, 2000), default 10000
CheckStale(o) == LockStale(o)

CheckCall(p) ==
    /\ CanCall(p)
    /\ Commit(p, [proc[p] EXCEPT !.call = [IdleCall EXCEPT !.pc = "checkStat",
                                                           !.op = "check",
                                                           !.stale = CheckStale(cfg.stale)]], disk)
    /\ UNCHANGED <<now, dev, cfg, budget, quota>>

CheckStatDone(p) ==
    LET s == proc[p] IN
    /\ s.up /\ s.call.pc = "checkStat"
    /\ \/ /\ Fault /\ Inject
          /\ Commit(p, [s EXCEPT !.call.pc = "EIO"], disk)
       \/ /\ NoInject
          /\ IF ~disk.exists
             THEN Commit(p, [s EXCEPT !.call.pc = "false"], disk)
             ELSE IF isLockStale(disk.mtime, s.call.stale, now)
                  THEN Commit(p, [s EXCEPT !.call.pc = "false"], disk)
                  ELSE Commit(p, [s EXCEPT !.call.pc = "true"], disk)
    /\ UNCHANGED <<now, dev, cfg, quota>>

\* ------------------------------------------------- the refresh chain
\* The setTimeout callback of updateLock(): the timer of chain k fires.
TimerFire(p, k) ==
    LET s == proc[p] IN
    /\ s.up /\ k \in DOMAIN s.chains
    /\ s.chains[k].pc = "timer"
    /\ now >= s.chains[k].due
    /\ Commit(p, [s EXCEPT !.recs[s.chains[k].lock].updateTimeout = 0,
                           !.chains[k].pc = "stat"], disk)
    /\ UNCHANGED <<now, dev, cfg, budget, quota>>

\* The stat callback with the over-threshold test made on every result.
TickStatStrict(s, k, err, mtime, t) ==
    LET r == s.chains[k].lock
        lock == s.recs[r]
        isOverThreshold == lock.lastUpdate + Stale < t
        ended == [s EXCEPT !.chains[k] = EndedChain]
    IN  IF err = "ENOENT" \/ isOverThreshold
        THEN setLockAsCompromised(ended, r, err, cfg.onCompromised)
        ELSE IF err # "none"
             THEN updateLock([s EXCEPT !.recs[r].updateDelay = RecoveryDelay], k, Update, t)
             ELSE IF lock.mtime # mtime
                  THEN setLockAsCompromised(ended, r, "NOTMINE", cfg.onCompromised)
                  ELSE [s EXCEPT !.chains[k].pc = "utimes",
                                 !.chains[k].pend = getMtime(lock.mtimePrecision, t)]

\* updateLock(): the stat callback
TickStat(s, k, err, mtime, t) ==
    LET r == s.chains[k].lock
        lock == s.recs[r]
        isOverThreshold == lock.lastUpdate + Stale < t
        ended == [s EXCEPT !.chains[k] = EndedChain]
    IN  IF err # "none"
        THEN IF err = "ENOENT" \/ isOverThreshold
             THEN setLockAsCompromised(ended, r, err, cfg.onCompromised)
             ELSE updateLock([s EXCEPT !.recs[r].updateDelay = RecoveryDelay], k, Update, t)
        ELSE IF lock.mtime # mtime
             THEN setLockAsCompromised(ended, r, "NOTMINE", cfg.onCompromised)
             ELSE [s EXCEPT !.chains[k].pc = "utimes",
                            !.chains[k].pend = getMtime(lock.mtimePrecision, t)]

TickStatDone(p, k) ==
    LET s == proc[p] IN
    /\ s.up /\ k \in DOMAIN s.chains
    /\ s.chains[k].pc = "stat"
    /\ \/ /\ Fault /\ Inject
          /\ Commit(p, TickStat(s, k, "EIO", 0, now), disk)
       \/ /\ NoInject
          /\ IF ~disk.exists
             THEN Commit(p, TickStat(s, k, "ENOENT", 0, now), disk)
             ELSE Commit(p, TickStat(s, k, "none", disk.mtime, now), disk)
    /\ UNCHANGED <<now, dev, cfg, quota>>

\* The utimes callback that leaves the delay as it is after a success.
TickUtimesKeepDelay(s, k, err, t) ==
    LET r == s.chains[k].lock
        lock == s.recs[r]
        isOverThreshold == lock.lastUpdate + Stale < t
        ended == [s EXCEPT !.chains[k] = EndedChain]
    IN  IF lock.released
        THEN ended
        ELSE IF err # "none"
             THEN IF err = "ENOENT" \/ isOverThreshold
                  THEN setLockAsCompromised(ended, r, err, cfg.onCompromised)
                  ELSE updateLock([s EXCEPT !.recs[r].updateDelay = RecoveryDelay],
                                  k, Update, t)
             ELSE updateLock([s EXCEPT !.recs[r].mtime = s.chains[k].pend,
                                       !.recs[r].lastUpdate = t,
                                       !.recs[r].refreshes = Min(@ + 1, 2)], k, Update, t)

\* updateLock(): the utimes callback
TickUtimes(s, k, err, t) ==
    LET r == s.chains[k].lock
        lock == s.recs[r]
        isOverThreshold == lock.lastUpdate + Stale < t
        ended == [s EXCEPT !.chains[k] = EndedChain]
    IN  IF lock.released
        THEN ended
        ELSE IF err # "none"
             THEN IF err = "ENOENT" \/ isOverThreshold
                  THEN setLockAsCompromised(ended, r, err, cfg.onCompromised)
                  ELSE updateLock([s EXCEPT !.recs[r].updateDelay = RecoveryDelay],
                                  k, Update, t)
             ELSE updateLock([s EXCEPT !.recs[r].mtime = s.chains[k].pend,
                                       !.recs[r].lastUpdate = t,
                                       !.recs[r].updateDelay = 0,
                                       !.recs[r].refreshes = Min(@ + 1, 2)], k, Update, t)

TickUtimesDone(p, k) ==
    LET s == proc[p] IN
    /\ s.up /\ k \in DOMAIN s.chains
    /\ s.chains[k].pc = "utimes"
    /\ \/ /\ Fault /\ Inject
          /\ Commit(p, TickUtimes(s, k, "EIO", now), disk)
       \/ /\ NoInject
          /\ IF ~disk.exists
             THEN Commit(p, TickUtimes(s, k, "ENOENT", now), disk)
             ELSE Commit(p, TickUtimes(IF s.chains[k].lock = s.locks THEN s ELSE Touched(s),
                                       k, "none", now),
                         [disk EXCEPT !.mtime = Stored(dev, s.chains[k].pend)])
    /\ UNCHANGED <<now, dev, cfg, quota>>

\* --------------------------------------------------------- onExit()
\* The process exits (its work is done, an exception elsewhere in the
\* program, a terminating signal) and the onExit handler runs: rmdirSync of
\* the sentinel of every lock in the registry, inside try / catch.
Exit(p) ==
    LET s == proc[p] IN
    /\ s.up
    /\ \/ /\ NoInject
          /\ Commit(p, Throw(s), disk)
       \/ /\ Fault /\ Inject
          /\ s.locks # NoRec
          /\ proc' = [proc EXCEPT ![p] =
                         Forget([s EXCEPT !.up = FALSE, !.call = IdleCall, !.orphan = 0,
                                          !.chains = [k \in DOMAIN s.chains |-> EndedChain]])]
          /\ UNCHANGED <<disk, out>>
          /\ UNCHANGED pvars
    /\ UNCHANGED <<now, dev, cfg, quota>>

\* ------------------------------------------------------ environment
\* The wall clock moves on.
Advance ==
    /\ \E n \in 1..MaxSec : now + n * Second < Horizon /\ now' = now + n * Second
    /\ UNCHANGED <<disk, dev, cfg, proc, out, budget, quota>>
    /\ UNCHANGED pvars

\* Another program removes the sentinel (fs.rmdirSync in the tests).
ExtRmdir ==
    /\ budget > 0 /\ disk.exists
    /\ disk' = Removed
    /\ budget' = budget - 1
    /\ proc' = [q \in Procs |-> Touched(proc[q])]
    /\ UNCHANGED <<now, dev, cfg, out, quota>>
    /\ UNCHANGED pvars

\* Another program sets the sentinel's mtime into the past (fs.utimesSync in the tests).
ExtUtimes ==
    /\ budget > 0 /\ disk.exists
    /\ disk' = [disk EXCEPT !.mtime = Stored(dev, now - 60 * Second)]
    /\ budget' = budget - 1
    /\ proc' = [q \in Procs |-> Touched(proc[q])]
    /\ UNCHANGED <<now, dev, cfg, out, quota>>
    /\ UNCHANGED pvars

\* Timers fire when they are due and a refresh takes no time: the clock does
\* not pass a pending timer, and stands still while a refresh is in progress.
AdvanceOnTime ==
    /\ \E t \in {now + n * Second : n \in 1..MaxSec} :
          /\ t < Horizon
          /\ \A p \in Procs : \A k \in DOMAIN proc[p].chains :
                /\ proc[p].chains[k].pc \notin {"stat", "utimes"}
                /\ proc[p].chains[k].pc = "timer" => t <= proc[p].chains[k].due
          /\ now' = t
    /\ UNCHANGED <<disk, dev, cfg, proc, out, budget, quota>>
    /\ UNCHANGED pvars

LockSteps(p) ==
    \/ LockCall(p) \/ MkdirDone(p) \/ StatDone(p) \/ RmdirDone(p)
    \/ ProbeUtimesDone(p) \/ ProbeStatDone(p)

RefreshSteps(p) ==
    \E k \in 1..(MaxCalls + 1) : TimerFire(p, k) \/ TickStatDone(p, k) \/ TickUtimesDone(p, k)

ReleaseSteps(p) ==
    \/ \E r \in 1..(MaxCalls + 1) : Release(p, r)
    \/ UnlockRmdirDone(p)

\* One process, I/O errors and an outside program.
\* The calls process p has made so far, in order: the finished ones and the
\* one in flight.
Calls(p) ==
    LET done == [i \in DOMAIN out[p] |-> [op |-> out[p][i].op, rec |-> out[p][i].rec]]
        c == proc[p].call
    IN  IF c.pc = "idle" THEN done
        ELSE Append(done, [op |-> c.op, rec |-> IF c.op = "release" THEN c.rec ELSE 0])

InitOf(disks, phases, handlers, b, q) ==
    /\ now \in {StartTime + ph : ph \in phases}
    /\ disk \in disks
    /\ dev \in {"s", "ms"}
    /\ cfg \in [stale : StaleInputs, update : UpdateInputs, onCompromised : handlers,
                retries : {0}]
    /\ \E c \in {"none", dev} : proc = [p \in Procs |-> [InitProc EXCEPT !.cache = c]]
    /\ out = [p \in Procs |-> << >>]
    /\ budget = b
    /\ quota = [p \in Procs |-> IF p = "A" THEN q ELSE 1]
    /\ PathsIdle

Init == InitOf(InitDisk, {0, 500}, {"custom"}, MaxDisturb, MaxCalls)

Next ==
    \/ LockSteps("A") \/ RefreshSteps("A") \/ ReleaseSteps("A") \/ OrphanRmdirDone("A")
    \/ Unlock("A") \/ CheckCall("A") \/ CheckStatDone("A")
    \/ Advance \/ ExtRmdir \/ ExtUtimes

Spec == Init /\ [][Next]_vars

\* One process that only locks and releases; nothing goes wrong, nobody else.
InitClean == InitOf(InitDisk, Phases, {"custom", "default"}, 0, MaxCalls + 1)

NextClean == LockSteps("A") \/ RefreshSteps("A") \/ ReleaseSteps("A") \/ Advance

SpecClean == InitClean /\ [][NextClean]_vars

\* Two processes that share the filesystem, a holder and a contender that
\* never releases; refreshes are on time.
InitDuo == InitOf({d \in InitDisk : d.mtime <= StartTime}, {0, 500}, {"custom"}, 0, MaxCalls)

NextDuo ==
    \/ LockSteps("A") \/ RefreshSteps("A") \/ ReleaseSteps("A") \/ OrphanRmdirDone("A")
    \/ LockSteps("B") \/ RefreshSteps("B") \/ OrphanRmdirDone("B")
    \/ CheckCall("B") \/ CheckStatDone("B")
    \/ AdvanceOnTime

SpecDuo == InitDuo /\ [][NextDuo]_vars

\* Two lock calls racing for a sentinel that was left behind, within one
\* millisecond: the clock stands still, so no timer fires.
InitRace == InitOf({d \in InitDisk : d.exists /\ d.mtime <= StartTime}, {0}, {"custom"}, 0, 1)

NextRace ==
    \/ LockSteps("A") \/ OrphanRmdirDone("A")
    \/ LockSteps("B") \/ OrphanRmdirDone("B")

SpecRace == InitRace /\ [][NextRace]_vars

\* One process that takes the lock and keeps it while I/O errors happen and
\* an outside program changes the sentinel; it never releases.
InitHeld == InitOf({d \in InitDisk : d.mtime <= StartTime}, {0, 500}, {"custom"},
                   MaxDisturb, MaxCalls - 1)

NextHeld ==
    \/ LockSteps("A") \/ RefreshSteps("A") \/ OrphanRmdirDone("A")
    \/ Advance \/ ExtRmdir \/ ExtUtimes

SpecHeld == InitHeld /\ [][NextHeld]_vars

\* One process that locks and checks with every kind of value for the stale
\* and update options; the sentinel may be absent, left behind long ago, or
\* one second old.
StaleOpts == {Absent, JsNull, JsFalse, Num(0), Num(100), Num(3000)}
UpdateOpts == {Absent, JsNull, JsFalse, Num(0), Num(500), Num(1500), Num(9000)}

OptsDisk ==
    { [exists |-> FALSE, mtime |-> 0],
      [exists |-> TRUE, mtime |-> StartTime - 60 * Second],
      [exists |-> TRUE, mtime |-> StartTime - Second] }

InitOpts ==
    /\ now = StartTime + 500
    /\ disk \in OptsDisk
    /\ dev \in {"s", "ms"}
    /\ cfg \in [stale : StaleOpts, update : UpdateOpts, onCompromised : {"custom"},
                retries : {0}]
    /\ proc = [p \in Procs |-> InitProc]
    /\ out = [p \in Procs |-> << >>]
    /\ budget = 0
    /\ quota = [p \in Procs |-> IF p = "A" THEN MaxCalls ELSE 0]
    /\ PathsIdle

NextOpts ==
    \/ LockSteps("A") \/ RefreshSteps("A")
    \/ CheckCall("A") \/ CheckStatDone("A")
    \/ Advance

SpecOpts == InitOpts /\ [][NextOpts]_vars

\* --------------------------------------------------------------- claims
\* This process has a lock in its registry (which holds unreleased locks only).
Holds(p) == proc[p].up /\ proc[p].locks # NoRec

\* C1: at most one process at a time holds the lock on the sentinel: of the
\* lock calls racing for it, at most one returns success until that holder
\* releases or is compromised.
C1_MutualExclusion == Cardinality({p \in Procs : Holds(p)}) <= 1

\* The Lock objects of a process that are not released.
Unreleased(p) == {r \in DOMAIN proc[p].recs : ~proc[p].recs[r].released}

\* C2: within one process at most one unreleased lock record exists for the
\* key: a lock call made while a record is unreleased never succeeds and
\* never replaces that record, whatever the state of the sentinel.
C2_OneLiveRecord == \A p \in Procs : Cardinality(Unreleased(p)) <= 1

\* Nothing but its own refresh has changed the sentinel of the lock p holds.
Undisturbed(p) == Holds(p) /\ ~proc[p].recs[proc[p].locks].touched

Fresh == disk.exists /\ ~isLockStale(disk.mtime, Stale, now)

\* The API call process q finishes in this step, and its outcome.
Finishes(q, op) ==
    /\ Len(out'[q]) > Len(out[q])
    /\ out'[q][Len(out'[q])].op = op
Result(q) == out'[q][Len(out'[q])].res

\* Every check another process finishes says true and every lock another
\* process finishes fails with ELOCKED.
Excludes(p) ==
    \A q \in Procs \ {p} :
        /\ Finishes(q, "check") => Result(q) = "true"
        /\ Finishes(q, "lock") => Result(q) = "ELOCKED"

\* C3: a held lock stays held: from a successful lock until its release,
\* when every refresh is on time and succeeds and nobody else touches the
\* sentinel, the sentinel is never stale, onCompromised is not called,
\* check by any process says true and lock by any other process fails with
\* ELOCKED.
C3_HeldStaysHeld ==
    /\ [](\A p \in Procs : Undisturbed(p) => Fresh)
    /\ [][\A p \in Procs : Undisturbed(p) =>
                proc'[p].recs[proc[p].locks].compromised = 0]_vars
    /\ [][\A p \in Procs : Undisturbed(p) /\ Undisturbed(p)' => Excludes(p)]_vars

\* Process p has made the calls lock, release (of that lock), lock, or the
\* first ones of them, and the first lock succeeded.
RoundTrip(p) ==
    LET c == Calls(p) IN
    /\ Len(c) \in 1..3
    /\ c[1].op = "lock"
    /\ Len(out[p]) >= 1 => out[p][1].res = "ok"
    /\ Len(c) >= 2 => c[2].op = "release" /\ c[2].rec = out[p][1].rec
    /\ Len(c) >= 3 => c[3].op = "lock"

\* C4: lock, release, lock in one process succeeds at each step; after the
\* release the sentinel does not exist and the registry has no record, and
\* after the second lock the sentinel exists and the registry holds exactly
\* one new record.
C4_RoundTrip ==
    [][\A p \in Procs : RoundTrip(p)' =>
          /\ proc'[p].up
          /\ Finishes(p, "release") =>
                Result(p) = "ok" /\ ~disk'.exists /\ proc'[p].locks = NoRec
          /\ Finishes(p, "lock") /\ Len(out'[p]) = 3 =>
                /\ Result(p) = "ok" /\ disk'.exists
                /\ proc'[p].locks = out'[p][3].rec
                /\ proc'[p].locks # out'[p][1].rec
                /\ Unreleased(p)' = {out'[p][3].rec}]_vars

\* Process p starts a call of `op` in this step (and may finish it at once).
Starts(p, op) ==
    /\ proc[p].call.pc = "idle"
    /\ Len(Calls(p)') > Len(Calls(p))
    /\ Calls(p)'[Len(Calls(p)')].op = op

\* The registry and the Lock objects of p are what they were.
SameRegistry(p) == proc'[p].locks = proc[p].locks /\ proc'[p].recs = proc[p].recs

\* C5: check says false when the sentinel does not exist, false when its
\* mtime is older than now minus the effective stale threshold, true in every
\* other case; a stat error other than not-found is returned as an error;
\* check never changes the sentinel or the registry.
C5_Check ==
    [][\A p \in Procs :
          /\ Starts(p, "check") => disk' = disk /\ SameRegistry(p)
          /\ Finishes(p, "check") =>
                /\ disk' = disk /\ SameRegistry(p)
                /\ Result(p) = IF budget' # budget THEN "EIO"
                               ELSE IF ~disk.exists THEN "false"
                               ELSE IF disk.mtime < now - Max(cfg.stale.n, MinStale)
                                    THEN "false"
                               ELSE "true"]_vars

\* check has said true of a sentinel and later false of the sentinel grown stale.
C5_Witness ==
    /\ Len(out["A"]) = 2 /\ disk.exists
    /\ out["A"][1].op = "check" /\ out["A"][1].res = "true"
    /\ out["A"][2].op = "check" /\ out["A"][2].res = "false"

\* Process p calls the release handle of its Lock object r in this step.
Releases(p, r) == Starts(p, "release") /\ Calls(p)'[Len(Calls(p)')].rec = r

\* C6: for a lock that was not compromised, the first call of its release
\* handle performs the unlock of that lock and of no other, and every later
\* call fails with ERELEASED without touching the registry or the
\* filesystem, also when the key has been locked again in between.
C6_DoubleRelease ==
    [][\A p \in Procs : \A r \in DOMAIN proc[p].recs :
          Releases(p, r) /\ proc[p].recs[r].compromised = 0 =>
              IF proc[p].recs[r].handleCalls = 0
              THEN /\ proc'[p].recs[r].released
                   /\ \A o \in DOMAIN proc[p].recs \ {r} :
                         proc'[p].recs[o].released = proc[p].recs[o].released
              ELSE /\ Finishes(p, "release") /\ Result(p) = "ERELEASED"
                   /\ disk' = disk
                   /\ proc'[p].locks = proc[p].locks]_vars

\* C7: the first call of the release handle of a lock for which
\* onCompromised has fired completes without error, performs no rmdir and
\* leaves the sentinel as it is.
C7_ReleaseCompromised ==
    [][\A p \in Procs : \A r \in DOMAIN proc[p].recs :
          /\ Releases(p, r)
          /\ proc[p].recs[r].compromised > 0
          /\ proc[p].recs[r].handleCalls = 0
          => /\ Finishes(p, "release") /\ Result(p) = "ok"
             /\ disk' = disk]_vars

\* C8: unlock on a key with no record in the registry fails with
\* ENOTACQUIRED and performs no rmdir, whatever sentinel is on disk.
C8_UnlockNotAcquired ==
    [][\A p \in Procs :
          Starts(p, "unlock") /\ proc[p].locks = NoRec =>
              /\ Finishes(p, "unlock") /\ Result(p) = "ENOTACQUIRED"
              /\ proc'[p].call.pc = "idle"
              /\ disk' = disk /\ SameRegistry(p)]_vars

\* unlock has failed with ENOTACQUIRED after this process's lock was
\* compromised, and the sentinel is still there.
C8_Witness ==
    /\ Len(out["A"]) = 2 /\ disk.exists
    /\ out["A"][2].op = "unlock" /\ out["A"][2].res = "ENOTACQUIRED"
    /\ \E r \in DOMAIN proc["A"].recs : proc["A"].recs[r].compromised > 0

\* m is within a few seconds of t, as the tests measure it.
Near(m, t) == m > t - 3 * Second /\ m < t + 3 * Second

C10_FutureReclaim ==
    [][\A p \in Procs :
          Finishes(p, "lock") /\ proc[p].call.found = "future" =>
              /\ Result(p) = "ok"
              /\ disk'.exists /\ Near(disk'.mtime, now)]_vars

\* C11: with stale = false a lock call that finds a sentinel 60 seconds old
\* fails with ELOCKED and leaves the sentinel in place.
C11_StaleDisabled ==
    [][\A p \in Procs :
          /\ Finishes(p, "lock")
          /\ cfg.stale = JsFalse
          /\ proc[p].call.found = "stale"
          /\ ~proc[p].call.holder
          => Result(p) = "ELOCKED" /\ disk' = disk]_vars

\* The stale threshold the documentation promises for an option value.
EffectiveStale(o) ==
    IF o.tag = "num" THEN Max(o.n, 2000)
    ELSE IF o.tag = "absent" THEN 10000
    ELSE 2000

Pending(p) == {k \in DOMAIN proc[p].chains : proc[p].chains[k].pc = "timer"}

\* C13: for every stale and update option the refresh interval U in use
\* (the delay of every timer that is set) is at least 1000 and at most half
\* the effective stale threshold, and is that half when update is omitted or
\* null; the first refresh of a lock starts no earlier than 1000 ms after
\* its acquisition.
C13_UpdateClamp ==
    /\ [][\A p \in Procs : \A k \in Pending(p)' \ Pending(p) :
            LET U == proc'[p].chains[k].due - now
                half == EffectiveStale(cfg.stale) \div 2
            IN  /\ 1000 <= U /\ U <= half
                /\ cfg.update.tag \in {"absent", "null"} => U = half]_vars
    /\ [][\A p \in Procs : \A k \in Pending(p) :
            LET lock == proc[p].recs[proc[p].chains[k].lock]
            IN  proc'[p].chains[k].pc = "stat" /\ lock.refreshes = 0 =>
                    now >= lock.lastUpdate + 1000]_vars

\* With update = 500 and stale = 3000 the first refresh has started, one
\* second after the lock was taken.
C13_Witness ==
    /\ cfg.update = Num(500) /\ cfg.stale = Num(3000)
    /\ \E k \in DOMAIN proc["A"].chains :
          /\ proc["A"].chains[k].pc = "stat"
          /\ proc["A"].recs[proc["A"].chains[k].lock].refreshes = 0
          /\ now = proc["A"].recs[proc["A"].chains[k].lock].lastUpdate + 1000

\* The refresh I/O call (stat or utimes) of chain k of process p returns in
\* this step, without an injected error, and the process goes on (when it
\* exits, the calls in flight of all its chains are dropped).
Returns(p, k) ==
    /\ proc[p].chains[k].pc \in {"stat", "utimes"}
    /\ proc'[p].chains[k] # proc[p].chains[k]
    /\ proc'[p].up
    /\ budget' = budget

\* onCompromised is called for Lock object r of p in this step, with `err`.
Compromises(p, r, err) ==
    /\ proc'[p].recs[r].compromised = proc[p].recs[r].compromised + 1
    /\ proc'[p].recs[r].why = err

\* C14: when the sentinel of a held lock has been removed and not made
\* again, the holder's next refresh I/O finds it missing: the record is
\* marked released and taken out of the registry, onCompromised is called
\* with the not-found error, and the refresh chain ends; the registry is
\* free when the callback runs, so a lock call made from it can succeed.
C14_CompromiseOnRemoval ==
    [][\A p \in Procs : \A k \in DOMAIN proc[p].chains :
          LET r == proc[p].chains[k].lock IN
          Returns(p, k) /\ ~disk.exists /\ ~proc[p].recs[r].released =>
              /\ proc'[p].recs[r].released
              /\ Compromises(p, r, "ENOENT")
              /\ proc'[p].locks # r
              /\ proc[p].locks = r => proc'[p].locks = NoRec
              /\ proc'[p].chains[k].pc = "end"
              /\ disk' = disk]_vars

\* The holder was compromised because its sentinel had been removed, and
\* its next lock call succeeded.
C14_Witness ==
    /\ Len(out["A"]) = 2
    /\ out["A"][1].op = "lock" /\ out["A"][1].res = "ok"
    /\ out["A"][2].op = "lock" /\ out["A"][2].res = "ok" /\ out["A"][2].found = "none"
    /\ proc["A"].recs[1].compromised = 1 /\ proc["A"].recs[1].why = "ENOENT"
    /\ proc["A"].recs[1].released
    /\ proc["A"].locks = 2 /\ disk.exists

\* C15: once the mtime of the sentinel of a held lock has been overwritten
\* by somebody else, the holder's next refresh tick (the next stat that
\* returns) calls onCompromised, starts no utimes and leaves the sentinel on
\* disk.
C15_CompromiseOnDrift ==
    [][\A p \in Procs : \A k \in DOMAIN proc[p].chains :
          LET r == proc[p].chains[k].lock IN
          /\ Returns(p, k) /\ proc[p].chains[k].pc = "stat"
          /\ ~proc[p].recs[r].released /\ proc[p].recs[r].drifted
          /\ disk.exists
          => /\ Compromises(p, r, "NOTMINE")
             /\ proc'[p].chains[k].pc = "end"
             /\ disk' = disk]_vars

\* C16: when the utimes call of a refresh, issued in time, returns with
\* success or with an error later than stale ms after the last successful
\* refresh, the holder gets onCompromised, the record is released and out of
\* the registry, and its refresh chain ends.
C16_OverThreshold ==
    [][\A p \in Procs : \A k \in DOMAIN proc[p].chains :
          LET r == proc[p].chains[k].lock IN
          /\ proc[p].chains[k].pc = "utimes"
          /\ proc'[p].chains[k] # proc[p].chains[k]
          /\ proc'[p].up
          /\ ~proc[p].recs[r].released
          /\ proc[p].chains[k].pend <= proc[p].recs[r].lastUpdate + EffectiveStale(cfg.stale)
          /\ proc[p].recs[r].lastUpdate + EffectiveStale(cfg.stale) < now
          => /\ proc'[p].recs[r].compromised = proc[p].recs[r].compromised + 1
             /\ proc'[p].recs[r].released
             /\ proc'[p].locks # r
             /\ proc'[p].chains[k].pc = "end"]_vars

\* C17: when a refresh tick runs later than stale ms after the last
\* successful refresh and its stat finds the sentinel with exactly the mtime
\* the holder recorded, the lock is not compromised and stays in the
\* registry, utimes is issued, and when that succeeds the record's next
\* tick is pending, set at the normal interval.
C17_StallRecovery ==
    [][\A p \in Procs : \A k \in DOMAIN proc[p].chains :
          LET r == proc[p].chains[k].lock
              late == /\ Returns(p, k) /\ disk.exists
                      /\ ~proc[p].recs[r].released
                      /\ proc[p].recs[r].lastUpdate + EffectiveStale(cfg.stale) < now
              same == proc'[p].recs[r].compromised = proc[p].recs[r].compromised
          IN  /\ (late /\ proc[p].chains[k].pc = "stat"
                       /\ disk.mtime = proc[p].recs[r].mtime)
                  => /\ same /\ ~proc'[p].recs[r].released
                     /\ proc'[p].locks = proc[p].locks
                     /\ proc'[p].chains[k].pc = "utimes"
              /\ (late /\ proc[p].chains[k].pc = "utimes" /\ proc[p].locks = r)
                  => LET j == proc'[p].recs[r].updateTimeout
                         U == LockUpdate(cfg.update, EffectiveStale(cfg.stale))
                     IN  /\ same /\ ~proc'[p].recs[r].released
                         /\ j # 0 /\ proc'[p].chains[j].pc = "timer"
                         /\ proc'[p].chains[j].lock = r
                         /\ proc'[p].chains[j].due <= now + U
                         /\ j = k => proc'[p].chains[j].due = now + U]_vars

\* A first refresh whose tick ran after the stale threshold had passed has
\* issued its utimes, and the lock is not compromised.
C17_Witness ==
    \E k \in DOMAIN proc["A"].chains :
        LET c == proc["A"].chains[k] IN
        /\ c.pc = "utimes" /\ proc["A"].locks = c.lock
        /\ proc["A"].recs[c.lock].mtimePrecision = "ms"
        /\ c.pend > proc["A"].recs[c.lock].lastUpdate + EffectiveStale(cfg.stale)
        /\ proc["A"].recs[c.lock].compromised = 0
        /\ ~proc["A"].recs[c.lock].released
        /\ disk.exists /\ disk.mtime = proc["A"].recs[c.lock].mtime

\* C18: every successful refresh of a held lock writes a sentinel mtime
\* strictly greater than the mtime the sentinel had before it, the first
\* refresh included, which follows the mtime set by the precision probe.
C18_RefreshProgress ==
    [][\A p \in Procs : \A k \in DOMAIN proc[p].chains :
          LET r == proc[p].chains[k].lock IN
          /\ Returns(p, k) /\ proc[p].chains[k].pc = "utimes"
          /\ disk.exists
          /\ proc[p].locks = r /\ ~proc[p].recs[r].released
          => disk'.exists /\ disk'.mtime > disk.mtime]_vars

\* C19: once unlock or the release handle has marked a record released, no
\* stat and no utimes is started for that record any more, whether its
\* timer was pending or its stat or utimes was in flight at that moment.
C19_UnlockStopsRefresher ==
    [][\A p \in Procs : \A k \in DOMAIN proc[p].chains :
          LET c == proc[p].chains[k] IN
          c.pc # "end" /\ proc[p].recs[c.lock].released =>
              ~ /\ proc'[p].chains[k].pc \in {"stat", "utimes"}
                /\ proc'[p].chains[k].pc # c.pc]_vars

\* Chain k is the only refresh chain of p with an I/O call in flight.
OnlyInFlight(p, k) ==
    \A j \in DOMAIN proc[p].chains :
        proc[p].chains[j].pc \in {"stat", "utimes"} <=> j = k

\* C20: when the stat or utimes of a refresh returns, with whatever result,
\* for a record that unlock has marked released in the meantime, nothing
\* follows from it: onCompromised is not called, no exception is raised,
\* the registry is not touched, no tick is scheduled, and the record keeps
\* its mtime, last refresh time and delay.
C20_ReleasedIsInert ==
    [][\A p \in Procs : \A k \in DOMAIN proc[p].chains :
          LET r == proc[p].chains[k].lock IN
          /\ OnlyInFlight(p, k)
          /\ proc'[p].chains[k] # proc[p].chains[k]
          /\ proc[p].recs[r].released /\ proc[p].recs[r].compromised = 0
          => /\ proc'[p].up
             /\ proc'[p].recs[r].compromised = 0
             /\ proc'[p].locks = proc[p].locks
             /\ Pending(p)' \subseteq Pending(p)
             /\ proc'[p].chains[k].pc # "end" =>
                   /\ proc'[p].recs[r].mtime = proc[p].recs[r].mtime
                   /\ proc'[p].recs[r].lastUpdate = proc[p].recs[r].lastUpdate
                   /\ proc'[p].recs[r].updateDelay = proc[p].recs[r].updateDelay]_vars

\* Process p starts unlock (directly or by a release handle) in this step
\* and finds a record in its registry.
UnlocksRecord(p) ==
    /\ Starts(p, "unlock") \/ Starts(p, "release")
    /\ proc[p].locks # NoRec
    /\ proc'[p].call.pc = "unlockRmdir"

\* C21: unlock relinquishes ownership even when removal fails: when it
\* finds the record it cancels the timer, marks the record released and
\* takes it out of the registry before rmdir is attempted; an rmdir error
\* other than not-found is returned to the caller, a sentinel that is missing
\* is reported as success; the record stays out of the registry and no
\* refresh (utimes) is started for it again.
C21_UnlockRelinquishes ==
    [][\A p \in Procs :
          /\ UnlocksRecord(p) =>
                LET r == proc[p].locks IN
                /\ proc'[p].recs[r].released
                /\ proc'[p].recs[r].updateTimeout = 0
                /\ \A k \in Pending(p)' : proc'[p].chains[k].lock # r
                /\ proc'[p].locks = NoRec
                /\ disk' = disk
          /\ proc[p].call.pc = "unlockRmdir" /\ proc'[p].call # proc[p].call
                                            /\ proc'[p].up =>
                /\ Finishes(p, proc[p].call.op)
                /\ Result(p) = IF budget' # budget THEN "EIO" ELSE "ok"
                /\ budget' # budget => disk' = disk
                /\ budget' = budget => ~disk'.exists
                /\ proc'[p].locks = proc[p].locks
          /\ \A r \in DOMAIN proc[p].recs : proc[p].recs[r].released =>
                /\ proc'[p].locks # r
                /\ \A k \in DOMAIN proc[p].chains :
                      proc[p].chains[k].lock = r /\ proc[p].chains[k].pc # "utimes"
                          => proc'[p].chains[k].pc # "utimes"]_vars

\* C22: after unlock and a successful new lock of the same key in the same
\* process, no step made for the old record (the return of a refresh stat or
\* utimes that was in flight at unlock, and what follows from it) takes the
\* new record out of the registry, marks it released, writes the mtime of
\* the new sentinel, or calls onCompromised for the new lock.
C22_RelockIsolated ==
    [][\A p \in Procs : \A k \in DOMAIN proc[p].chains :
          LET r == proc[p].chains[k].lock
              n == proc[p].locks
          IN  /\ proc[p].chains[k].pc \in {"stat", "utimes"}
              /\ proc'[p].chains[k] # proc[p].chains[k]
              /\ proc'[p].up
              /\ proc[p].recs[r].released /\ proc[p].recs[r].compromised = 0
              /\ n # NoRec /\ n # r /\ ~proc[p].recs[n].released
              => /\ proc'[p].locks = n
                 /\ ~proc'[p].recs[n].released
                 /\ proc'[p].recs[n].compromised = proc[p].recs[n].compromised
                 /\ disk' = disk]_vars

\* One process that takes the lock and keeps it while its refresh I/O fails
\* again and again; thresholds of 2000 and 3000 ms, so that the refresh
\* interval (1000, 1500) is and is not the delay used after an error.
ErrStale == {Num(2000), Num(3000)}

InitErr ==
    /\ now = StartTime
    /\ disk \in {d \in InitDisk : d.mtime <= StartTime}
    /\ dev \in {"s", "ms"}
    /\ cfg \in [stale : ErrStale, update : UpdateInputs, onCompromised : {"custom"},
                retries : {0}]
    /\ \E c \in {"none", dev} : proc = [p \in Procs |-> [InitProc EXCEPT !.cache = c]]
    /\ out = [p \in Procs |-> << >>]
    /\ budget = MaxDisturb + 2
    /\ quota = [p \in Procs |-> IF p = "A" THEN 1 ELSE 0]
    /\ PathsIdle

NextErr == LockSteps("A") \/ RefreshSteps("A") \/ OrphanRmdirDone("A") \/ Advance

SpecErr == InitErr /\ [][NextErr]_vars

\* The refresh I/O call of chain k of p returns in this step with an error
\* other than not-found.
Fails(p, k) ==
    /\ proc[p].chains[k].pc \in {"stat", "utimes"}
    /\ proc'[p].chains[k] # proc[p].chains[k]
    /\ budget' # budget

\* C23: when a refresh's stat or utimes fails with an error other than
\* not-found less than stale ms after the last successful refresh, the lock
\* is not compromised, the record stays in the registry and the next tick is
\* set 1000 ms later; when it fails more than stale ms after the last
\* successful refresh, onCompromised is called with that error; after a
\* successful refresh the next tick is set at the update interval again.
C23_RefreshErrors ==
    [][\A p \in Procs : \A k \in DOMAIN proc[p].chains :
          LET r == proc[p].chains[k].lock
              lock == proc[p].recs[r]
              stale == EffectiveStale(cfg.stale)
              U == LockUpdate(cfg.update, stale)
          IN  /\ Fails(p, k) /\ ~lock.released /\ now - lock.lastUpdate < stale =>
                    /\ proc'[p].recs[r].compromised = lock.compromised
                    /\ ~proc'[p].recs[r].released
                    /\ proc'[p].locks = proc[p].locks
                    /\ proc'[p].chains[k].pc = "timer"
                    /\ proc'[p].chains[k].due = now + 1000
                    /\ proc'[p].recs[r].lastUpdate = lock.lastUpdate
              /\ Fails(p, k) /\ ~lock.released /\ now - lock.lastUpdate > stale =>
                    /\ Compromises(p, r, "EIO")
                    /\ proc'[p].recs[r].released
                    /\ proc'[p].locks # r
                    /\ proc'[p].chains[k].pc = "end"
              /\ Returns(p, k) /\ proc[p].chains[k].pc = "utimes" /\ ~lock.released
                               /\ disk.exists =>
                    /\ proc'[p].recs[r].lastUpdate = now
                    /\ proc'[p].chains[k].pc = "timer"
                    /\ proc'[p].chains[k].due = now + U]_vars

\* Refreshes failed within the threshold without compromising the lock, and
\* the failure after the threshold had passed compromised it.
C23_Witness ==
    /\ budget <= MaxDisturb
    /\ Len(proc["A"].recs) = 1
    /\ proc["A"].recs[1].compromised = 1 /\ proc["A"].recs[1].why = "EIO"
    /\ proc["A"].locks = NoRec

\* Two processes that lock the same file with retries; the first to get the
\* lock may release it while the other is waiting for its next attempt.
RetryInputs == 0..MaxRetries

InitRetry ==
    /\ now = StartTime
    /\ disk = [exists |-> FALSE, mtime |-> 0]
    /\ dev \in {"s", "ms"}
    /\ cfg \in [stale : StaleInputs, update : UpdateInputs, onCompromised : {"custom"},
                retries : RetryInputs]
    /\ \E c \in {"none", dev} : proc = [p \in Procs |-> [InitProc EXCEPT !.cache = c]]
    /\ out = [p \in Procs |-> << >>]
    /\ budget = 0
    /\ quota = [p \in Procs |-> IF p = "A" THEN 2 ELSE 1]
    /\ PathsIdle

NextRetry ==
    \/ LockSteps("A") \/ RetryFire("A") \/ RefreshSteps("A") \/ ReleaseSteps("A")
    \/ LockSteps("B") \/ RetryFire("B") \/ RefreshSteps("B")
    \/ AdvanceOnTime

SpecRetry == InitRetry /\ [][NextRetry]_vars

\* The outcome of the call p finishes in this step.
Outcome(p) == out'[p][Len(out'[p])]

InitExit ==
    InitOf({d \in InitDisk : d.mtime <= StartTime}, {500}, {"custom", "default"},
           MaxDisturb, MaxCalls)

NextExit ==
    \/ LockSteps("A") \/ RefreshSteps("A") \/ ReleaseSteps("A") \/ OrphanRmdirDone("A")
    \/ Exit("A") \/ Advance

SpecExit == InitExit /\ [][NextExit]_vars

\* C25: when a process exits (normally, by a crash or by a terminating
\* signal) the sentinel of the record in its registry is removed in that
\* very step, and an error of that removal is ignored: the process exits all
\* the same; so a process that holds a lock and exits while rmdir works
\* leaves no sentinel.
C25_ExitCleanup ==
    [][\A p \in Procs :
          proc[p].up /\ ~proc'[p].up =>
              /\ proc'[p].locks # NoRec /\ budget' = budget => ~disk'.exists
              /\ proc'[p].call.pc = "idle"
              /\ Pending(p)' = {}]_vars

\* A process that held a lock has exited and its sentinel is gone.
C25_Witness ==
    /\ ~proc["A"].up /\ proc["A"].locks # NoRec
    /\ ~proc["A"].recs[proc["A"].locks].released
    /\ Len(out["A"]) >= 1 /\ out["A"][Len(out["A"])].op = "lock"
    /\ out["A"][Len(out["A"])].res = "ok"
    /\ ~disk.exists /\ budget = MaxDisturb


\* ------------------------------------------------------------------ C26
\* Locks whose sentinels all live on one device, through any of the paths,
\* as many in flight at once as the caller likes.
NextProbe ==
    \E i \in 1..MaxCalls :
        \/ \E path \in {"foo", "bar"}, rp \in BOOLEAN :
               PStart(i, "lock", path, rp, FALSE, Absent, MaxCalls)
        \/ PRealpathDone(i)
        \/ PSteps(i)

SpecProbe == InitPaths /\ [][NextProbe]_vars

\* C26: over any interleaving of lock calls whose sentinels are on the same
\* device, the prober makes its probing utimes write at most once for that
\* device; every later acquisition only stats its sentinel.
C26_ProbeOnce == \A d \in Devs : fsobj.probes[d] <= 1


\* ------------------------------------------------------------------ C27
\* One process whose fs object may carry the precision of a device it locked
\* a file on before, whatever the device of this sentinel is; nothing goes
\* wrong, nobody else, refreshes are on time.
InitMixed ==
    /\ now \in {StartTime + ph : ph \in Phases}
    /\ disk \in {d \in InitDisk : d.mtime <= StartTime}
    /\ dev \in {"s", "ms"}
    /\ cfg \in [stale : StaleInputs, update : UpdateInputs, onCompromised : {"custom"},
                retries : {0}]
    /\ \E c \in {"none", "s", "ms"} : proc = [p \in Procs |-> [InitProc EXCEPT !.cache = c]]
    /\ out = [p \in Procs |-> << >>]
    /\ budget = 0
    /\ quota = [p \in Procs |-> IF p = "A" THEN MaxCalls ELSE 0]
    /\ PathsIdle

NextMixed == LockSteps("A") \/ RefreshSteps("A") \/ ReleaseSteps("A") \/ AdvanceOnTime

SpecMixed == InitMixed /\ [][NextMixed]_vars

\* C27: the precision stored in a lock record is the precision of the
\* device that holds its sentinel, also when the process has locked a file
\* on a device of another precision before; so a holder whose sentinel
\* nobody else touches is not compromised for that earlier lock.
C27_PrecisionOfDevice ==
    /\ [](\A p \in Procs : \A r \in DOMAIN proc[p].recs :
              proc[p].recs[r].mtimePrecision = dev)
    /\ [][\A p \in Procs : Undisturbed(p) =>
                proc'[p].recs[proc[p].locks].compromised = 0]_vars


\* ------------------------------------------------------------------ C28
\* The moments within a second at which things happen.
WithinSecond == {0, 1, 500, 999}

\* Time passes, by a second at most, while timers wait and while I/O is in
\* flight.
AdvanceWithin ==
    /\ \E t \in now + 1 .. now + Second :
          /\ t % Second \in WithinSecond
          /\ t < Horizon
          /\ now' = t
    /\ UNCHANGED <<disk, dev, cfg, proc, out, budget, quota>>
    /\ UNCHANGED pvars

\* One process that takes the lock on a filesystem of any of the three
\* kinds, probed before or not, and keeps it; nothing goes wrong, nobody else.
InitWhole ==
    /\ now \in {StartTime + ph : ph \in WithinSecond}
    /\ disk \in {d \in InitDisk : d.mtime <= StartTime}
    /\ dev \in {"s", "up", "ms"}
    /\ cfg \in [stale : StaleInputs, update : UpdateInputs, onCompromised : {"custom"},
                retries : {0}]
    /\ \E c \in {"none", IF dev = "ms" THEN "ms" ELSE "s"} :
          proc = [p \in Procs |-> [InitProc EXCEPT !.cache = c]]
    /\ out = [p \in Procs |-> << >>]
    /\ budget = 0
    /\ quota = [p \in Procs |-> IF p = "A" THEN 1 ELSE 0]
    /\ PathsIdle

NextWhole == LockSteps("A") \/ RefreshSteps("A") \/ AdvanceWithin

SpecWhole == InitWhole /\ [][NextWhole]_vars

\* C28: on a filesystem whose stat reports whole seconds, rounded down or
\* up, and on one that reports milliseconds, a holder whose sentinel nobody
\* else touches passes the mtime comparison at every refresh tick, whenever
\* within the second the lock was taken and the tick runs, and
\* onCompromised is never called.
C28_NoSpuriousCompromise ==
    /\ [](\A p \in Procs : \A k \in DOMAIN proc[p].chains :
              proc[p].chains[k].pc = "stat" /\ Undisturbed(p)
              => disk.exists /\ disk.mtime = proc[p].recs[proc[p].chains[k].lock].mtime)
    /\ [](\A p \in Procs : \A r \in DOMAIN proc[p].recs : proc[p].recs[r].compromised = 0)

\* A lock on a filesystem that rounds up has been refreshed twice, off the
\* whole second, and a third tick is about to compare the mtimes.
C28_Witness ==
    /\ dev = "up" /\ now % Second # 0
    /\ Undisturbed("A")
    /\ proc["A"].recs[1].refreshes = 2
    /\ proc["A"].recs[1].compromised = 0
    /\ \E k \in DOMAIN proc["A"].chains : proc["A"].chains[k].pc = "stat"


\* ------------------------------------------------------------------ C29
\* One process that locks, unlocks and checks through any of the paths,
\* with realpath or without, one call after the other.
NextCanon ==
    \E i \in 1..MaxCalls :
        \/ \E op \in {"lock", "unlock", "check"}, path \in Paths, rp \in BOOLEAN :
               PStart(i, op, path, rp, FALSE, Absent, 1)
        \/ PRealpathDone(i)
        \/ PSteps(i) \/ PRmdirDone(i) \/ PCheckStatDone(i)

SpecCanon == InitPaths /\ [][NextCanon]_vars

\* Job i gets its result in this step.
Ends(i) == jobs[i].pc \notin Final /\ jobs'[i].pc \in Final

\* C29: with realpath two paths of one real file have the same key and
\* sentinel: while a lock taken through one of them is held, lock through
\* the other fails with ELOCKED, check through it says true and unlock
\* through it releases the lock; without realpath every path has its own
\* key and sentinel.  With realpath a target that does not exist makes
\* lock, unlock and check fail with ENOENT before any mkdir, rmdir or stat
\* of a sentinel.
C29_CanonicalKeys ==
    /\ [](\A i \in DOMAIN jobs :
            LET j == jobs[i] IN
            /\ j.key # "none" =>
                   j.key = IF j.realpath THEN tree.real[j.path] ELSE j.path
            /\ j.realpath /\ tree.real[j.path] = "ENOENT" =>
                   /\ j.sentCalls = 0
                   /\ j.pc \in Final => j.pc = "ENOENT"
            /\ j.pc = "ENOENT" => j.realpath /\ tree.real[j.path] = "ENOENT")
    /\ [][\A i \in DOMAIN jobs :
            LET j == jobs[i]
                k == IF j.realpath THEN tree.real[j.path] ELSE j.path
            IN  Ends(i) /\ k # "ENOENT" =>
                  /\ j.op = "lock" =>
                        /\ jobs'[i].pc = IF registry[k].held THEN "ELOCKED" ELSE "ok"
                        /\ jobs'[i].pc = "ok" =>
                              /\ registry'[k].held /\ sent'[k].exists
                              /\ \A o \in Keys \ {k} :
                                    registry'[o] = registry[o] /\ sent'[o] = sent[o]
                  /\ j.op = "check" =>
                        jobs'[i].pc = IF registry[k].held THEN "true" ELSE "false"
                  /\ j.op = "unlock" =>
                        /\ jobs'[i].pc = "ENOTACQUIRED" => ~registry[k].held /\ j.sentCalls = 0
                        /\ jobs'[i].pc = "ok" =>
                              /\ ~registry'[k].held /\ ~sent'[k].exists
                              /\ \A o \in Keys \ {k} : registry'[o] = registry[o] /\ sent'[o] = sent[o]]_vars
    /\ [][\A i \in DOMAIN jobs :
            jobs[i].pc = "none" /\ jobs'[i].op = "unlock" /\ jobs'[i].key # "none"
            => (jobs'[i].pc = "ENOTACQUIRED") = ~registry[jobs'[i].key].held]_vars
    /\ [][\A i \in DOMAIN jobs :
            jobs[i].pc = "realpath" /\ jobs[i].op = "unlock" /\ jobs'[i].key # "none"
            => (jobs'[i].pc = "ENOTACQUIRED") = ~registry[jobs'[i].key].held]_vars

\* bar is a symbolic link to foo: the lock was taken through bar, and a
\* lock through foo has failed with ELOCKED.
C29_Witness ==
    /\ tree.real = Linked
    /\ jobs[1].op = "lock" /\ jobs[1].path = "bar" /\ jobs[1].realpath /\ jobs[1].pc = "ok"
    /\ jobs[2].op = "lock" /\ jobs[2].path = "foo" /\ jobs[2].realpath /\ jobs[2].pc = "ELOCKED"
    /\ registry["foo"].held /\ ~sent["bar"].exists


\* ------------------------------------------------------------------ C30
\* One process that locks foo through the synchronous API, with any
\* retries option, and unlocks it.
RetryForms ==
    {Absent} \cup {Num(n) : n \in 0..MaxRetries} \cup {Obj(n) : n \in 0..MaxRetries}

NextSync ==
    \E i \in 1..MaxCalls :
        \/ \E rp \in BOOLEAN, r \in RetryForms : PStart(i, "lock", "foo", rp, TRUE, r, 1)
        \/ PStart(i, "unlock", "foo", FALSE, FALSE, Absent, 1)
        \/ PRealpathDone(i)
        \/ PSteps(i) \/ PRmdirDone(i)

SpecSync == InitPaths /\ [][NextSync]_vars

\* C30: the synchronous lock rejects a retries option greater than 0, given
\* as a number or as an object with a retries field, with ESYNC before any
\* filesystem call is made and without changing the registry; with retries
\* 0 in either form it is accepted and the lock goes on.
C30_SyncRetries ==
    /\ [](\A i \in DOMAIN jobs :
            LET j == jobs[i] IN
            j.sync /\ j.pc # "none" =>
                /\ j.retries.n > 0 => j.pc = "ESYNC" /\ j.fsCalls = 0
                /\ j.retries.n = 0 => j.pc # "ESYNC" /\ j.fsCalls >= 1)
    /\ [][\A i \in DOMAIN jobs :
            /\ jobs'[i].pc = "ESYNC" /\ jobs[i].pc # "ESYNC" =>
                   registry' = registry /\ sent' = sent /\ fsobj' = fsobj
            /\ Ends(i) /\ jobs[i].sync /\ jobs'[i].pc # "ESYNC" =>
                   /\ jobs'[i].pc = IF registry["foo"].held THEN "ELOCKED" ELSE "ok"
                   /\ jobs'[i].pc = "ok" => registry'["foo"].held]_vars

\* A synchronous lock with { retries: { retries: 0 } } has taken the lock,
\* and one with an object asking for retries was rejected while it is held.
C30_Witness ==
    /\ jobs[1].sync /\ jobs[1].retries = Obj(0) /\ jobs[1].pc = "ok"
    /\ jobs[2].sync /\ jobs[2].retries.tag = "obj" /\ jobs[2].retries.n > 0
    /\ jobs[2].pc = "ESYNC" /\ jobs[2].fsCalls = 0
    /\ registry["foo"].held /\ sent["foo"].exists


\* ------------------------------------------------------------------ C31
\* How far an acquisition attempt is from its end: the filesystem calls it
\* may still have to wait for.
Rank(c) ==
    IF c.pc = "mkdir" THEN (IF c.stale > 0 THEN 6 ELSE 3)
    ELSE IF c.pc = "stat" THEN 5
    ELSE IF c.pc = "rmdir" THEN 4
    ELSE IF c.pc = "probeUtimes" THEN 2
    ELSE IF c.pc = "probeStat" THEN 1
    ELSE 0

\* C31: an acquisition attempt ends after at most two mkdir calls, one
\* staleness stat and one rmdir: every callback of it brings it nearer to
\* its end.  After a stat that found nothing and after the removal of a
\* stale sentinel the second mkdir is made with staleness disabled, and
\* when it hits an existing sentinel the attempt ends with ELOCKED with no
\* further stat or rmdir.
C31_BoundedAcquisition ==
    [][\A p \in Procs :
          LET c == proc[p].call
              d == proc'[p].call
          IN  Rank(c) > 0 /\ (d.pc # c.pc \/ d.stale # c.stale) =>
                /\ Rank(d) < Rank(c)
                /\ c.pc \in {"stat", "rmdir"} /\ d.pc = "mkdir" => d.stale = 0
                /\ c.pc = "mkdir" /\ c.stale = 0 /\ disk.exists /\ budget' = budget
                   /\ proc'[p].up =>
                      /\ disk' = disk
                      /\ \/ d.pc = "retry" /\ d.errs[Len(d.errs)] = "ELOCKED"
                         \/ Finishes(p, "lock")
                            /\ out'[p][Len(out'[p])].errs[Len(c.errs) + 1] = "ELOCKED"]_vars

\* After the removal of a stale sentinel the second mkdir of an attempt is
\* about to hit a sentinel that somebody else has made in the meantime.
C31_Witness ==
    \E p \in Procs :
        /\ proc[p].call.pc = "mkdir" /\ proc[p].call.stale = 0
        /\ proc[p].call.found = "stale"
        /\ disk.exists /\ ~isLockStale(disk.mtime, Stale, now)


LateStat(p, k) ==
    /\ proc[p].chains[k].pc = "stat"
    /\ proc'[p].chains[k] # proc[p].chains[k]
    /\ proc'[p].up
    /\ ~proc[p].recs[proc[p].chains[k].lock].released
    /\ proc[p].recs[proc[p].chains[k].lock].lastUpdate + EffectiveStale(cfg.stale) < now

\* C33: at a refresh tick, when more than stale ms have passed since the
\* last successful refresh at the moment the stat result arrives, the
\* record is marked released and taken out of the registry and
\* onCompromised is called, also when the stat itself succeeded.
C33_ThresholdAtStat ==
    [][\A p \in Procs : \A k \in DOMAIN proc[p].chains :
          LET r == proc[p].chains[k].lock IN
          LateStat(p, k) =>
              /\ proc'[p].recs[r].released
              /\ proc'[p].locks # r
              /\ proc'[p].recs[r].compromised = proc[p].recs[r].compromised + 1]_vars

\* C33 as the code has it: the threshold decides only when the stat failed.
\* A late stat that fails compromises the lock; a late stat that succeeds
\* compromises it exactly when the mtime is not the recorded one, and
\* otherwise goes on to utimes.
C33_ThresholdOnStatError ==
    [][\A p \in Procs : \A k \in DOMAIN proc[p].chains :
          LET r == proc[p].chains[k].lock
              lock == proc[p].recs[r]
              failed == budget' # budget \/ ~disk.exists
              ours == disk.mtime = lock.mtime
          IN  LateStat(p, k) =>
                /\ failed \/ ~ours =>
                      /\ proc'[p].recs[r].released
                      /\ proc'[p].locks # r
                      /\ proc'[p].recs[r].compromised = lock.compromised + 1
                      /\ proc'[p].chains[k].pc = "end"
                /\ ~failed /\ ours =>
                      /\ ~proc'[p].recs[r].released
                      /\ proc'[p].locks = proc[p].locks
                      /\ proc'[p].recs[r].compromised = lock.compromised
                      /\ proc'[p].chains[k].pc = "utimes"
                /\ disk' = disk]_vars

\* On a whole-second device a tick that ran after the threshold had passed
\* found its own mtime and has issued its utimes; the lock is held.
C33_Witness ==
    \E k \in DOMAIN proc["A"].chains :
        LET c == proc["A"].chains[k] IN
        /\ c.pc = "utimes" /\ proc["A"].locks = c.lock
        /\ proc["A"].recs[c.lock].mtimePrecision = "s" /\ dev = "s"
        /\ now > proc["A"].recs[c.lock].lastUpdate + EffectiveStale(cfg.stale)
        /\ proc["A"].recs[c.lock].compromised = 0
        /\ disk.exists /\ disk.mtime = proc["A"].recs[c.lock].mtime


\* ------------------------------------------------------------------ C34
\* C34: a compromised record is marked released and is not in the
\* registry; no timer, stat or utimes is started for it any more and
\* onCompromised is called once for it in all; it is not called at a
\* refresh whose stat or utimes succeeded with the recorded mtime in place.
C34_CompromisedIsTerminal ==
    /\ [](\A p \in Procs : \A r \in DOMAIN proc[p].recs :
              proc[p].recs[r].compromised > 0 =>
                  /\ proc[p].recs[r].released
                  /\ proc[p].locks # r
                  /\ proc[p].recs[r].compromised = 1)
    /\ [][\A p \in Procs : \A k \in DOMAIN proc'[p].chains :
              LET c == proc'[p].chains[k] IN
              /\ c.pc \in {"timer", "stat", "utimes"}
              /\ c.lock \in DOMAIN proc[p].recs
              /\ proc[p].recs[c.lock].compromised > 0
              => k \in DOMAIN proc[p].chains /\ proc[p].chains[k] = c]_vars
    /\ [][\A p \in Procs : \A k \in DOMAIN proc[p].chains :
              LET r == proc[p].chains[k].lock IN
              /\ Returns(p, k) /\ disk.exists
              /\ proc[p].chains[k].pc = "stat" => disk.mtime = proc[p].recs[r].mtime
              => proc'[p].recs[r].compromised = proc[p].recs[r].compromised]_vars


\* ------------------------------------------------------------------ C35
\* The refresh ticks of a record that are pending or in flight.
TicksOf(p, r) ==
    {k \in DOMAIN proc[p].chains :
        /\ proc[p].chains[k].pc \in {"timer", "stat", "utimes"}
        /\ proc[p].chains[k].lock = r}

\* C35: single refresh chain.  Every lock record has at most one refresh tick
\* pending or in flight at any time, every unreleased record in the registry
\* of a running process has exactly one, and the rescheduling made at the end
\* of a record's tick schedules that same record, never another record that
\* is registered under the same key.
C35_SingleRefreshChain ==
    /\ [](\A p \in Procs : \A r \in DOMAIN proc[p].recs :
              /\ Cardinality(TicksOf(p, r)) <= 1
              /\ (proc[p].up /\ proc[p].locks = r /\ ~proc[p].recs[r].released)
                     => Cardinality(TicksOf(p, r)) = 1)
    /\ [][\A p \in Procs : \A k \in DOMAIN proc[p].chains :
              /\ proc[p].chains[k].pc \in {"stat", "utimes"}
              /\ k \in DOMAIN proc'[p].chains
              /\ proc'[p].chains[k].pc = "timer"
              => proc'[p].chains[k].lock = proc[p].chains[k].lock]_vars


\* ------------------------------------------------------------------ C36
\* C36: a compromised lock's sentinel is never touched again by its former
\* holder.  Once onCompromised has been called for a record, its release
\* handle starts no rmdir and changes nothing on disk, no tick of that
\* record starts a utimes or changes the sentinel, the registry does not
\* hold the record, and the exit of the process removes nothing for it.
C36_CompromisedHandsOff ==
    /\ [](\A p \in Procs : \A r \in DOMAIN proc[p].recs :
              proc[p].recs[r].compromised > 0 => proc[p].locks # r)
    /\ [][\A p \in Procs : \A r \in DOMAIN proc[p].recs :
              proc[p].recs[r].compromised > 0 =>
                  /\ Releases(p, r) =>
                         /\ proc'[p].call.pc # "unlockRmdir"
                         /\ disk' = disk
                  /\ \A k \in TicksOf(p, r) :
                         Returns(p, k) =>
                             /\ proc'[p].chains[k].pc # "utimes"
                             /\ disk' = disk
                  /\ (proc[p].up /\ ~proc'[p].up /\ proc[p].locks = NoRec)
                         => disk'.exists = disk.exists]_vars


\* ------------------------------------------------------------------ C37
\* C37: reclaim removes only stale sentinels.  Whenever the rmdir of a lock
\* call's stale-reclaim path removes the sentinel, the sentinel's mtime is
\* stale at that moment: a sentinel that another process created or
\* refreshed after the reclaimer's stat is never removed.
C37_ReclaimOnlyStale ==
    [][\A p \in Procs :
          /\ proc[p].call.pc = "rmdir"
          /\ proc'[p].call.pc # "rmdir"
          /\ disk.exists /\ ~disk'.exists
          => isLockStale(disk.mtime, Stale, now)]_vars


\* ------------------------------------------------------------------ C38
\* C38: a release handle acts only on its own record.  A call of the handle
\* of record r leaves every other record of the process as it is (released
\* flag and pending timer), takes no other record out of the registry, and
\* starts an rmdir only when r is the record the registry holds, so that it
\* never removes the sentinel of a later lock call.
C38_HandleOwnRecord ==
    [][\A p \in Procs : \A r \in DOMAIN proc[p].recs :
          Releases(p, r) =>
              /\ \A o \in DOMAIN proc[p].recs \ {r} :
                     /\ proc'[p].recs[o].released = proc[p].recs[o].released
                     /\ proc'[p].recs[o].updateTimeout = proc[p].recs[o].updateTimeout
              /\ proc[p].locks # r => /\ proc'[p].locks = proc[p].locks
                                      /\ proc'[p].call.pc # "unlockRmdir"]_vars


\* ------------------------------------------------------------------ C39
\* Two processes that each make one lock call for a sentinel that was left
\* behind, and then keep what they got.  Timers fire when they are due, every
\* callback of a refresh that is in flight is eventually run, and the clock
\* moves on whenever it can.
InitLive == InitOf({d \in InitDisk : d.exists /\ d.mtime <= StartTime}, {0, 500}, {"custom"}, 0, 1)

NextLive ==
    \/ LockSteps("A") \/ RefreshSteps("A")
    \/ LockSteps("B") \/ RefreshSteps("B")
    \/ AdvanceOnTime

SpecLive ==
    /\ InitLive /\ [][NextLive]_vars
    /\ WF_vars(RefreshSteps("A")) /\ WF_vars(RefreshSteps("B"))
    /\ WF_vars(AdvanceOnTime)

\* Both processes hold the lock: each has an unreleased record in its registry.
DoubleOwned == \A p \in Procs : Holds(p) /\ ~proc[p].recs[proc[p].locks].released

\* Each holder has refreshed its record twice since it acquired the lock, so
\* that a whole refresh cycle of each lies after the later acquisition.
CycleDone == \A p \in Procs : proc[p].recs[proc[p].locks].refreshes >= 2

\* C39: double ownership is detected.  When two processes both have an
\* unreleased record for the sentinel, with timers firing on time and every
\* refresh callback run, onCompromised is called for one of them within one
\* refresh cycle, on either mtime precision and whenever the two
\* acquisitions were made: the two never both stay holders through a whole
\* refresh cycle of each.
C39_DoubleOwnershipDetected == DoubleOwned => ~CycleDone


\* ------------------------------------------------------------------ C40
\* The attempt of p's lock call that had made the sentinel fails in its probe.
ProbeFails(p) ==
    /\ proc[p].call.pc \in {"probeUtimes", "probeStat"}
    /\ proc'[p].up
    /\ proc'[p].call.pc \notin {"probeUtimes", "probeStat"}
    /\ ~(Finishes(p, "lock") /\ Result(p) = "ok")

=============================================================================
